---- MODULE Spec2Model ----
(***************************************************************************)
(* State-machine model of tracecmd/trace-msg.c: the framed message         *)
(* protocol between a trace-cmd client and server.  The byte stream of the *)
(* socket is modelled byte by byte, integers are encoded big-endian on the *)
(* wire (htonl/ntohl), and C integer conversions keep their 32-bit width.  *)
(***************************************************************************)
EXTENDS Integers, Sequences, FiniteSets, TLC

VARIABLES
    op,        \* the public operation being executed by this endpoint
    pc,        \* position inside the operation
    ret,       \* the operation's local "ret" / its return value once pc = "done"
    h,         \* struct tracecmd_msg_handle/_server: flags, cpu_count, done
    h0,        \* the handle as it was when the operation was called
    mem,       \* struct tracecmd_msg bytes 0..23 (hdr, tinit/rinit union); -1 = uninitialised
    buf,       \* msg.buf / msg.opt / msg.port_array: [valid, data]
    rd,        \* state of the tracecmd_msg_recv call in progress; whole: every
               \* read(2) so far returned all the bytes it was asked for
    rx,        \* bytes in the socket not yet read by this endpoint
    peerOpen,  \* the peer has not closed its end
    sent,      \* the peer's messages on the wire: how many, the last one, and
               \* whether the peer built it with this file's sending code
    loc,       \* local variables of the operation; live: the buffers that
               \* receives malloc'ed for the slot and nobody freed, and nData:
               \* the SEND_DATA messages received, both counted up to 2
    out,       \* bytes written to the socket by a sender, or to ofd by
               \* collect_data for the message in the slot
    oob        \* a byte was read through an invalid pointer or outside its buffer

vars == <<op, pc, ret, h, h0, mem, buf, rd, rx, peerOpen, sent, loc, out, oob>>

(***************************************************************************)
(* Program constants.                                                      *)
(***************************************************************************)
MSG_MAX_LEN == 8192
MSG_HDR_LEN == 12
MSG_MAX_DATA_LEN == MSG_MAX_LEN - MSG_HDR_LEN
MAX_OPTION_SIZE == 4096
OPT_LEN == 8
PORT_LEN == 4
MSGOPT_USETCP == 1

MSG_CLOSE == 0
MSG_TINIT == 1
MSG_RINIT == 2
MSG_SEND_DATA == 3
MSG_FIN_DATA == 4
MSG_NR_COMMANDS == 5

msg_cmd_sizes(cmd) ==
    CASE cmd = MSG_TINIT -> 12
      [] cmd = MSG_RINIT -> 4
      [] OTHER -> 0

\* errno values (Linux)
EINTR == 4
EIO == 5
EFAULT == 14
ENOMEM == 12
EINVAL == 22
ENOMSG == 42
ECOMM == 70
ECONNABORTED == 103
ENOTCONN == 107
ETIMEDOUT == 110

(***************************************************************************)
(* Bounds of the model.                                                    *)
(***************************************************************************)
MaxPeerMsgs == 4      \* messages the peer sends during one operation
MaxPayload == 2       \* longest SEND_DATA payload the peer sends
ShortReadLimit == 12  \* requests up to this size are served in every split
MaxChunks == 2        \* full MSG_MAX_DATA_LEN chunks of a data_send buffer

(***************************************************************************)
(* 32-bit arithmetic and byte order.                                       *)
(***************************************************************************)
\* A 32-bit value (u32, be32 or int) is held as the int with the same bit
\* pattern: an int is itself, a u32 of 2^31 or more is the negative int
\* congruent to it modulo 2^32.
INT_MAX == 2147483647
INT_MIN == -INT_MAX - 1

Min(a, b) == IF a < b THEN a ELSE b

\* a + b modulo 2^32
Add32(a, b) ==
    IF a >= 0 /\ b >= 0 /\ a > INT_MAX - b
    THEN ((a - INT_MAX) + (b - INT_MAX)) - 2
    ELSE IF a < 0 /\ b < 0 /\ a < INT_MIN - b
    THEN ((a + INT_MAX) + (b + INT_MAX)) + 2
    ELSE a + b

\* -b modulo 2^32
Neg32(b) == IF b = INT_MIN THEN INT_MIN ELSE -b

\* a - b modulo 2^32
Sub32(a, b) == Add32(a, Neg32(b))

\* a < b and a > b as unsigned 32-bit comparisons
ULess(a, b) == IF (a < 0) = (b < 0) THEN a < b ELSE b < 0

UGreater(a, b) == ULess(b, a)

\* a + k > b computed in 64 bits (size_t), for u32 a and b and a small k >= 0
UGreater64(a, k, b) ==
    IF a < 0 /\ a >= -k THEN TRUE ELSE UGreater(Add32(a, k), b)

\* the four bytes of a 32-bit value in network byte order, and back
htonl(x) ==
    LET lo == IF x < 0 THEN (x + INT_MAX) + 1 ELSE x
        top == lo \div 16777216 + (IF x < 0 THEN 128 ELSE 0)
    IN  << top, (lo \div 65536) % 256, (lo \div 256) % 256, lo % 256 >>

ntohl(b) ==
    IF b[1] >= 128
    THEN (((b[1] - 128) * 16777216 + b[2] * 65536 + b[3] * 256 + b[4]) - INT_MAX) - 1
    ELSE b[1] * 16777216 + b[2] * 65536 + b[3] * 256 + b[4]

\* what an uninitialised 32-bit field or an invalid pointer may yield
GarbageWords == {0, 2, -1}
GarbageBytes == {0, 255}

\* the values a 32-bit big-endian load at byte offset off of m can produce
Load32(m, off) ==
    IF \E k \in 1..4 : m[off + k] < 0
    THEN GarbageWords
    ELSE { ntohl(SubSeq(m, off + 1, off + 4)) }

Uninit == [k \in 1..24 |-> -1]
NoBuf == [valid |-> FALSE, data |-> << >>]

(***************************************************************************)
(* Messages of the peer.                                                   *)
(***************************************************************************)
M(size, cmd, cmd_size, fix, var) ==
    [size |-> size, cmd |-> cmd, cmd_size |-> cmd_size, fix |-> fix, var |-> var]

Encode(m) == htonl(m.size) \o htonl(m.cmd) \o htonl(m.cmd_size) \o m.fix \o m.var

Payload(n) == [k \in 1..n |-> 64 + k]

Zeros(n) == [k \in 1..n |-> 0]

DataMsg(n) == M(MSG_HDR_LEN + n, MSG_SEND_DATA, 0, << >>, Payload(n))

Opt(size, cmd) == htonl(size) \o htonl(cmd)

Tinit(cpus, page_size, opt_num, opts) ==
    M(MSG_HDR_LEN + 12 + Len(opts), MSG_TINIT, 12,
      htonl(cpus) \o htonl(page_size) \o htonl(opt_num), opts)

Rinit(cpus, ports) ==
    M(MSG_HDR_LEN + 4 + Len(ports), MSG_RINIT, 4, htonl(cpus), ports)

CollectMsgs ==
    { DataMsg(n) : n \in 0..MaxPayload } \cup
    { M(MSG_HDR_LEN, MSG_FIN_DATA, 0, << >>, << >>),
      M(MSG_HDR_LEN, MSG_CLOSE, 0, << >>, << >>),
      M(MSG_HDR_LEN, MSG_TINIT, 0, << >>, << >>),
      Rinit(0, << >>),
      M(MSG_HDR_LEN, MSG_NR_COMMANDS, 0, << >>, << >>),
      M(MSG_HDR_LEN + 1, MSG_NR_COMMANDS, 0, << >>, <<7>>),
      M(MSG_HDR_LEN - 1, MSG_SEND_DATA, 0, << >>, << >>),
      M(MSG_MAX_LEN + 1, MSG_SEND_DATA, 0, << >>, << >>),
      M(0, MSG_CLOSE, 0, << >>, << >>),
      M(-1, MSG_FIN_DATA, 0, << >>, << >>),
      M(MSG_MAX_LEN, MSG_SEND_DATA, 0, << >>, <<65>>),
      M(MSG_HDR_LEN, MSG_SEND_DATA, -1, << >>, << >>),
      M(MSG_HDR_LEN + 2, MSG_SEND_DATA, 1, <<9>>, <<65>>) }

TinitMsgs ==
    { Tinit(c, 4096, n, Zeros(0)) : c \in {0, 2}, n \in {0} } \cup
    { Tinit(2, 4096, 1, Opt(8, MSGOPT_USETCP)),
      Tinit(2, 4096, 2, Opt(8, MSGOPT_USETCP) \o Opt(8, MSGOPT_USETCP)),
      Tinit(2045, 4096, 0, << >>),
      M(MSG_HDR_LEN + 1, MSG_TINIT, MSG_MAX_DATA_LEN,
        htonl(2) \o htonl(4096) \o htonl(0) \o Zeros(MSG_MAX_DATA_LEN - 12), << >>),
      M(MSG_HDR_LEN + 1, MSG_TINIT, MSG_MAX_DATA_LEN + 1,
        htonl(2) \o htonl(4096) \o htonl(0) \o Zeros(MSG_MAX_DATA_LEN - 11), << >>),
      Tinit(-1, 4096, 0, << >>),
      Tinit(2, 0, 1, Opt(8, MSGOPT_USETCP)),
      Tinit(2, -4096, 0, << >>),
      Tinit(2, 4096, 1, Opt(8, 2)),
      Tinit(2, 4096, 2, Opt(8, MSGOPT_USETCP) \o Opt(8, 0)),
      Tinit(2, 4096, 2, Opt(8, MSGOPT_USETCP)),
      Tinit(2, 4096, 1, Opt(16, MSGOPT_USETCP)),
      Tinit(2, 4096, 1, Opt(-8, MSGOPT_USETCP)),
      Tinit(2, 4096, 2, Opt(MAX_OPTION_SIZE + 1, MSGOPT_USETCP)
                          \o Zeros(MAX_OPTION_SIZE + 1 - OPT_LEN)
                          \o Opt(8, MSGOPT_USETCP)),
      Tinit(2, 4096, 3, Opt(0, MSGOPT_USETCP)),
      Tinit(2, 4096, 3, Opt(4, MSGOPT_USETCP) \o Opt(4, MSGOPT_USETCP)),
      Tinit(2, 4096, -1, Opt(8, 2)),
      M(MSG_HDR_LEN + 16 + 8, MSG_TINIT, 16,
        htonl(2) \o htonl(4096) \o htonl(1) \o Zeros(4), Opt(8, MSGOPT_USETCP)),
      M(MSG_HDR_LEN + 4, MSG_TINIT, 4, htonl(2), << >>),
      M(MSG_HDR_LEN, MSG_TINIT, 0, << >>, << >>),
      M(MSG_HDR_LEN, MSG_TINIT, -12, << >>, << >>),
      M(MSG_HDR_LEN, MSG_CLOSE, 0, << >>, << >>),
      M(MSG_HDR_LEN - 1, MSG_TINIT, 12, << >>, << >>) }

RinitMsgs ==
    { Rinit(0, << >>),
      Rinit(1, htonl(7001)),
      Rinit(2, htonl(7001) \o htonl(7002)),
      Rinit(1, << >>),
      Rinit(2, htonl(7001)),
      Rinit(-1, << >>),
      M(MSG_HDR_LEN, MSG_RINIT, 0, << >>, << >>),
      M(MSG_HDR_LEN, MSG_CLOSE, 0, << >>, << >>),
      Tinit(2, 4096, 0, << >>),
      M(MSG_MAX_LEN + 1, MSG_RINIT, 4, << >>, << >>) }

\* a message with the bytes it is on the wire
Wire(m) == [m |-> m, bytes |-> Encode(m)]

CloseWire == { Wire(M(MSG_HDR_LEN, MSG_CLOSE, 0, << >>, << >>)) }
CollectWire == { Wire(m) : m \in CollectMsgs }
TinitWire == { Wire(m) : m \in TinitMsgs }
RinitWire == { Wire(m) : m \in RinitMsgs }

\* what the peer may send next: any message of the operation's set when the
\* receiver is between two messages, and only a CLOSE while the receiver is
\* still waiting for the rest of a message
PeerMsgs(o, between) ==
    IF ~between THEN CloseWire
    ELSE CASE o = "collect_data" -> CollectWire
           [] o = "initial_setting" -> TinitWire
           [] o = "send_init_data" -> RinitWire
           [] OTHER -> {}

(***************************************************************************)
(* Initial state: one public operation is called on a fresh message slot.  *)
(***************************************************************************)
Ops == {"collect_data", "initial_setting", "send_init_data", "data_send",
        "send_port_array", "finish_sending_data", "send_close_msg"}

FirstPc(o) ==
    CASE o = "collect_data" -> "c_poll"
      [] o = "initial_setting" -> "i_poll"
      [] o = "send_init_data" -> "s_send"
      [] o = "send_port_array" -> "p_send"
      [] o = "finish_sending_data" -> "f_send"
      [] o = "send_close_msg" -> "x_send"
      [] OTHER -> "ds_init"

\* the handles an operation can be called with (tracecmd_msg_handle_alloc,
\* then the caller's or an earlier handshake's settings)
Handles(o) ==
    CASE o = "collect_data" ->
            { [flags |-> {"SERVER"}, cpu_count |-> 2, done |-> FALSE] }
      [] o = "initial_setting" ->
            { [flags |-> f, cpu_count |-> c, done |-> FALSE] :
                f \in { {"SERVER"}, {"SERVER", "USE_TCP"} }, c \in {0, 1} }
      [] o = "send_port_array" ->
            { [flags |-> {"SERVER"}, cpu_count |-> c, done |-> FALSE] :
                c \in {0, 1, 2, 2044, 2045} }
      [] OTHER ->
            { [flags |-> f, cpu_count |-> 2, done |-> FALSE] :
                f \in { {}, {"USE_TCP"} } }

\* the input buffers of tracecmd_msg_data_send: k full chunks plus r bytes
DataLens ==
    { k * MSG_MAX_DATA_LEN + r :
        k \in 0..MaxChunks, r \in {0, 1, 2, MSG_MAX_DATA_LEN - 1} }

DataBuf(n) == [k \in 1..n |-> k % 251]

Locals0 ==
    [n |-> 0, t |-> 0, s |-> 0, nData |-> 0, fin |-> FALSE, nDrain |-> 0,
     pagesize |-> 0, options |-> 0, i |-> 0, offset |-> 0, size |-> 0,
     ports_set |-> FALSE, ports |-> << >>, data |-> << >>, count |-> 0,
     live |-> 0]

NoRecv ==
    [phase |-> "none", size |-> 0, n |-> 0, got |-> 0, ret |-> 0,
     msize |-> 0, cmd_size |-> 0, rsize |-> 0, scr |-> -1, hdr |-> FALSE,
     whole |-> TRUE]

Init ==
    /\ op \in Ops
    /\ pc = FirstPc(op)
    /\ ret = 0
    /\ h0 \in Handles(op)
    /\ h = h0
    /\ mem = Uninit
    /\ buf = NoBuf
    /\ rd = NoRecv
    /\ rx = << >>
    /\ peerOpen = TRUE
    /\ sent = [count |-> 0, last |-> M(0, 0, 0, << >>, << >>), built |-> FALSE]
    /\ \E len \in (IF op = "data_send" THEN DataLens ELSE {0}) :
          loc = [Locals0 EXCEPT !.data = DataBuf(len)]
    /\ out = << >>
    /\ oob = FALSE

(***************************************************************************)
(* The peer and the socket.                                                *)
(***************************************************************************)
Reading == rd.phase \in {"hdr", "fix", "scratch", "var"} /\ rd.size > 0

Polling == pc \in {"c_poll", "i_poll", "s_poll"}

\* the peer writes one more message into the socket
PeerSend ==
    /\ Polling \/ Reading
    /\ rx = << >>
    /\ peerOpen
    /\ sent.count < MaxPeerMsgs
    /\ \E w \in PeerMsgs(op, Polling \/ rd.got = 0) :
          /\ rx' = w.bytes
          /\ sent' = [count |-> sent.count + 1, last |-> w.m, built |-> FALSE]
    /\ UNCHANGED <<op, pc, ret, h, h0, mem, buf, rd, peerOpen, loc, out, oob>>

\* the peer closes its end of the connection
PeerClose ==
    /\ Polling \/ Reading
    /\ rx = << >>
    /\ peerOpen
    /\ peerOpen' = FALSE
    /\ UNCHANGED <<op, pc, ret, h, h0, mem, buf, rd, rx, sent, loc, out, oob>>

(***************************************************************************)
(* msg_read: the read(2) loop.                                             *)
(***************************************************************************)
\* the byte counts one read(2) of a request of m available bytes may return
ReadLens(m) == { r \in 1..m : m <= ShortReadLimit \/ r = m }

ReadErrnos == {EIO}

RemainingNone(size, r) == 0

\* size -= r: the bytes msg_read still has to read after read(2) returned r
Remaining(size, r) == size - r

\* read(2) returned r > 0 bytes: they are stored at buf + *n
msg_read_some ==
    /\ Reading
    /\ rx # << >>
    /\ \E r \in ReadLens(Min(rd.size, Len(rx))) :
          /\ rx' = SubSeq(rx, r + 1, Len(rx))
          /\ rd' = [rd EXCEPT !.size = Remaining(@, r), !.n = @ + r, !.got = @ + r,
                              !.whole = @ /\ r = rd.size,
                              !.scr = IF rd.phase = "scratch" THEN rd.n + r - 1 ELSE @]
          /\ mem' = IF rd.phase \in {"hdr", "fix"}
                    THEN [k \in 1..24 |->
                            IF k > rd.n /\ k <= rd.n + r THEN rx[k - rd.n] ELSE mem[k]]
                    ELSE mem
          /\ buf' = IF rd.phase = "var"
                    THEN [buf EXCEPT !.data = @ \o SubSeq(rx, 1, r)]
                    ELSE buf
    /\ UNCHANGED <<op, pc, ret, h, h0, peerOpen, sent, loc, out, oob>>

\* read(2) stores past the end of scratch_buf and the process faults
msg_read_fault ==
    /\ Reading
    /\ rd.phase = "scratch"
    /\ rx # << >>
    /\ rd.n + Min(rd.size, Len(rx)) > MSG_MAX_LEN
    /\ pc' = "crash"
    /\ rd' = [rd EXCEPT !.phase = "fault",
                        !.scr = rd.n + Min(rd.size, Len(rx)) - 1]
    /\ UNCHANGED <<op, ret, h, h0, mem, buf, rx, peerOpen, sent, loc, out, oob>>

\* read(2) returned 0: the peer is gone
msg_read_eof ==
    /\ Reading
    /\ rx = << >>
    /\ ~peerOpen
    /\ rd' = [rd EXCEPT !.phase = "ret", !.ret = -ENOTCONN]
    /\ UNCHANGED <<op, pc, ret, h, h0, mem, buf, rx, peerOpen, sent, loc, out, oob>>

\* read(2) failed with an errno other than EINTR
msg_read_error ==
    /\ Reading
    /\ \E e \in ReadErrnos : rd' = [rd EXCEPT !.phase = "ret", !.ret = -e]
    /\ UNCHANGED <<op, pc, ret, h, h0, mem, buf, rx, peerOpen, sent, loc, out, oob>>

\* read(2) failed with EINTR: the loop retries with nothing changed
msg_read_eintr ==
    /\ Reading
    /\ UNCHANGED vars

(***************************************************************************)
(* tracecmd_msg_recv and msg_read_extra.                                   *)
(***************************************************************************)
RecvStart ==
    [phase |-> "hdr", size |-> MSG_HDR_LEN, n |-> 0, got |-> 0, ret |-> 0,
     msize |-> 0, cmd_size |-> 0, rsize |-> 0, scr |-> -1, hdr |-> FALSE,
     whole |-> TRUE]

SizeInvalidNoLower(size) == UGreater(size, MSG_MAX_LEN)

SizeInvalid(size) == UGreater(size, MSG_MAX_LEN) \/ ULess(size, MSG_HDR_LEN)

\* after the header was read: the size validation
tracecmd_msg_recv ==
    /\ rd.phase = "hdr"
    /\ rd.size = 0
    /\ \E size \in Load32(mem, 0) :
          rd' = IF SizeInvalid(size)
                THEN [rd EXCEPT !.phase = "ret", !.ret = -ENOMSG, !.hdr = TRUE]
                ELSE IF UGreater(size, MSG_HDR_LEN)
                THEN [rd EXCEPT !.phase = "extra", !.msize = size, !.hdr = TRUE]
                ELSE [rd EXCEPT !.phase = "ret", !.ret = 0, !.hdr = TRUE]
    /\ UNCHANGED <<op, pc, ret, h, h0, mem, buf, rx, peerOpen, sent, loc, out, oob>>

CmdInvalid(cmd) == cmd < 0 \/ cmd >= MSG_NR_COMMANDS

\* entry of msg_read_extra: the command and cmd_size checks
msg_read_extra ==
    /\ rd.phase = "extra"
    /\ \E ucmd \in Load32(mem, 4), ucs \in Load32(mem, 8) :
          LET cmd == ucmd
              cmd_size == ucs
          IN  rd' = IF CmdInvalid(cmd) \/ cmd_size < 0
                    THEN [rd EXCEPT !.phase = "ret", !.ret = -EINVAL]
                    ELSE IF cmd_size > 0
                    THEN [rd EXCEPT !.phase = "fix", !.cmd_size = cmd_size,
                                    !.rsize = Min(cmd_size, msg_cmd_sizes(cmd)),
                                    !.size = Min(cmd_size, msg_cmd_sizes(cmd))]
                    ELSE [rd EXCEPT !.phase = "tail"]
    /\ UNCHANGED <<op, pc, ret, h, h0, mem, buf, rx, peerOpen, sent, loc, out, oob>>

\* the fixed payload was read: the excess of cmd_size goes to scratch_buf + *n
msg_read_extra_scratch ==
    /\ rd.phase = "fix"
    /\ rd.size = 0
    /\ rd' = [rd EXCEPT !.phase = "scratch", !.size = rd.cmd_size - rd.rsize]
    /\ UNCHANGED <<op, pc, ret, h, h0, mem, buf, rx, peerOpen, sent, loc, out, oob>>

\* the excess was read
msg_read_extra_fixed_done ==
    /\ rd.phase = "scratch"
    /\ rd.size = 0
    /\ rd' = [rd EXCEPT !.phase = "tail"]
    /\ UNCHANGED <<op, pc, ret, h, h0, mem, buf, rx, peerOpen, sent, loc, out, oob>>

\* the rest of the message, if any, is the variable payload in a new buffer
msg_read_extra_buf ==
    /\ rd.phase = "tail"
    /\ \/ /\ rd.msize > rd.n
          /\ rd' = [rd EXCEPT !.phase = "var", !.size = rd.msize - rd.n, !.n = 0]
          /\ buf' = [valid |-> TRUE, data |-> << >>]
          /\ loc' = [loc EXCEPT !.live = Min(@ + 1, 2)]
       \/ /\ rd.msize > rd.n
          /\ rd' = [rd EXCEPT !.phase = "ret", !.ret = -ENOMEM]
          /\ buf' = NoBuf
          /\ loc' = loc
       \/ /\ rd.msize <= rd.n
          /\ rd' = [rd EXCEPT !.phase = "ret", !.ret = 0]
          /\ buf' = buf
          /\ loc' = loc
    /\ UNCHANGED <<op, pc, ret, h, h0, mem, rx, peerOpen, sent, out, oob>>

\* the variable payload was read
msg_read_extra_done ==
    /\ rd.phase = "var"
    /\ rd.size = 0
    /\ rd' = [rd EXCEPT !.phase = "ret", !.ret = 0]
    /\ UNCHANGED <<op, pc, ret, h, h0, mem, buf, rx, peerOpen, sent, loc, out, oob>>

(***************************************************************************)
(* tracecmd_msg_recv_wait: poll, then receive.                             *)
(***************************************************************************)
AfterPoll(p) ==
    CASE p = "c_poll" -> "c_recv"
      [] p = "i_poll" -> "i_recv"
      [] OTHER -> "s_recv"

tracecmd_msg_recv_wait ==
    /\ Polling
    /\ pc' = AfterPoll(pc)
    /\ \/ /\ rx # << >> \/ ~peerOpen
          /\ rd' = RecvStart
       \/ /\ rx = << >>
          /\ peerOpen
          /\ rd' = [RecvStart EXCEPT !.phase = "ret", !.ret = -ETIMEDOUT]
       \/ rd' = [RecvStart EXCEPT !.phase = "ret", !.ret = -EINTR]
    /\ UNCHANGED <<op, ret, h, h0, mem, buf, rx, peerOpen, sent, loc, out, oob>>

Returned == rd.phase = "ret"

(***************************************************************************)
(* Reads through msg.buf.                                                  *)
(***************************************************************************)
\* whether the r bytes at b + s lie inside the buffer b points to
InBounds(b, s, r) == b.valid /\ s >= 0 /\ s + r <= Len(b.data)

\* the fillers for the bytes of a read that lie outside the buffer
Fillers(b, s, r) ==
    IF InBounds(b, s, r) THEN { Zeros(r) } ELSE [1..r -> GarbageBytes]

\* the r bytes at b + s, with g standing for what lies outside the buffer
BytesAt(b, s, r, g) ==
    [k \in 1..r |->
        IF b.valid /\ s + k - 1 >= 0 /\ s + k - 1 < Len(b.data)
        THEN b.data[s + k]
        ELSE g[k]]

(***************************************************************************)
(* tracecmd_msg_collect_data                                               *)
(***************************************************************************)
Return(v) == pc' = "done" /\ ret' = v

\* the variable-payload length of the message in the slot, as the int n
DataLen(size, cmd_size) == Sub32(Sub32(size, MSG_HDR_LEN), cmd_size)

\* first loop, after tracecmd_msg_recv_wait returned
collect_data_recv ==
    /\ pc = "c_recv"
    /\ Returned
    /\ IF rd.ret < 0
       THEN Return(rd.ret) /\ loc' = loc
       ELSE \E usize \in Load32(mem, 0), ucmd \in Load32(mem, 4),
               ucs \in Load32(mem, 8) :
               LET cmd == ucmd
                   n == DataLen(usize, ucs)
               IN  IF cmd = MSG_FIN_DATA
                   THEN /\ pc' = "d_check"
                        /\ ret' = rd.ret
                        /\ loc' = [loc EXCEPT !.fin = TRUE]
                   ELSE IF cmd # MSG_SEND_DATA
                   THEN Return(rd.ret) /\ loc' = loc
                   ELSE /\ pc' = "c_write"
                        /\ ret' = rd.ret
                        /\ loc' = [loc EXCEPT !.n = n, !.t = n, !.s = 0,
                                              !.nData = Min(@ + 1, 2)]
    /\ out' = << >>
    /\ UNCHANGED <<op, h, h0, mem, buf, rd, rx, peerOpen, sent, oob>>

WriteErrnos == {EIO}

\* the loop writing the payload to ofd: one write(2) per step
collect_data_write ==
    /\ pc = "c_write"
    /\ \/ /\ loc.t <= 0
          /\ pc' = "c_poll"
          /\ UNCHANGED <<ret, loc, out, oob>>
       \/ /\ loc.t > 0
          /\ \E r \in 1..loc.t : \E g \in Fillers(buf, loc.s, r) :
                /\ out' = out \o BytesAt(buf, loc.s, r, g)
                /\ oob' = (oob \/ ~InBounds(buf, loc.s, r))
                /\ loc' = [loc EXCEPT !.t = loc.t - r, !.s = loc.n - (loc.t - r)]
                /\ UNCHANGED <<pc, ret>>
       \/ /\ loc.t > 0
          /\ loc' = [loc EXCEPT !.s = -1]
          /\ UNCHANGED <<pc, ret, out, oob>>
       \/ /\ loc.t > 0
          /\ \E e \in WriteErrnos \cup (IF buf.valid THEN {} ELSE {EFAULT}) :
                Return(-e)
          /\ loc' = [loc EXCEPT !.s = -1]
          /\ UNCHANGED <<out, oob>>
    /\ UNCHANGED <<op, h, h0, mem, buf, rd, rx, peerOpen, sent>>

\* the caller (another thread or a signal handler) sets the done flag; the
\* flag is read only at the head of the drain loop
tracecmd_msg_set_done ==
    /\ pc = "d_check"
    /\ ~h.done
    /\ h' = [h EXCEPT !.done = TRUE]
    /\ UNCHANGED <<op, pc, ret, h0, mem, buf, rd, rx, peerOpen, sent, loc, out, oob>>

\* head of the second loop: while (!tracecmd_msg_done(msg_handle))
collect_data_drain ==
    /\ pc = "d_check"
    /\ IF h.done
       THEN Return(0) /\ rd' = rd
       ELSE pc' = "d_recv" /\ rd' = RecvStart /\ ret' = ret
    /\ UNCHANGED <<op, h, h0, mem, buf, rx, peerOpen, sent, loc, out, oob>>

\* the value ret takes when the drain loop meets a command other than CLOSE;
\* r is the value ret holds from the receive
DrainRejectKeepsRet(r) == r

DrainReject(r) == -EINVAL

\* second loop, after tracecmd_msg_recv returned
collect_data_drain_recv ==
    /\ pc = "d_recv"
    /\ Returned
    /\ IF rd.ret < 0
       THEN Return(rd.ret) /\ loc' = loc
       ELSE /\ loc' = [loc EXCEPT !.nDrain = @ + 1]
            /\ \E ucmd \in Load32(mem, 4) :
                  IF ucmd = MSG_CLOSE
                  THEN Return(0)
                  ELSE Return(DrainReject(rd.ret))
    /\ UNCHANGED <<op, h, h0, mem, buf, rd, rx, peerOpen, sent, out, oob>>

(***************************************************************************)
(* tracecmd_msg_initial_setting                                            *)
(***************************************************************************)
OptionTooBigNever(osize) == FALSE

OptionTooBig(osize) == UGreater(osize, MAX_OPTION_SIZE)

process_option_noop(flags, opt_cmd) == flags

\* the handle's flags after process_option
process_option(flags, opt_cmd) ==
    IF opt_cmd = MSGOPT_USETCP THEN flags \cup {"USE_TCP"} ELSE flags

\* process_option's result: the option is understood
OptionUnderstood(opt_cmd) == opt_cmd = MSGOPT_USETCP

\* cpu_count after the TINIT's cpus was accepted
StoreCpus(handle, cpus) == [handle EXCEPT !.cpu_count = cpus]

\* after tracecmd_msg_recv_wait returned: the checks before the option loop
initial_setting_recv ==
    /\ pc = "i_recv"
    /\ Returned
    /\ IF rd.ret < 0
       THEN Return(rd.ret) /\ UNCHANGED <<h, loc>>
       ELSE \E ucmd \in Load32(mem, 4), ucs \in Load32(mem, 8),
               ucpus \in Load32(mem, 12), ups \in Load32(mem, 16),
               uopts \in Load32(mem, 20) :
               IF ucmd # MSG_TINIT
               THEN Return(-EINVAL) /\ UNCHANGED <<h, loc>>
               ELSE IF ucpus < 0
               THEN Return(-EINVAL) /\ UNCHANGED <<h, loc>>
               ELSE IF ups <= 0
               THEN /\ Return(-EINVAL)
                    /\ h' = StoreCpus(h, ucpus)
                    /\ loc' = loc
               ELSE /\ pc' = "i_opt"
                    /\ ret' = rd.ret
                    /\ h' = StoreCpus(h, ucpus)
                    /\ loc' = [loc EXCEPT !.pagesize = ups,
                                          !.size = Add32(MSG_HDR_LEN, ucs),
                                          !.options = uopts,
                                          !.i = 0, !.offset = 0]
    /\ UNCHANGED <<op, h0, mem, buf, rd, rx, peerOpen, sent, out, oob>>

\* one iteration of the option loop, or the return after it
initial_setting_option ==
    /\ pc = "i_opt"
    /\ \/ /\ loc.i >= loc.options
          /\ Return(loc.pagesize)
          /\ UNCHANGED <<h, loc, oob>>
       \/ /\ loc.i < loc.options
          /\ \E hsize \in Load32(mem, 0) :
                IF UGreater64(loc.size, OPT_LEN, hsize)
                THEN Return(-EINVAL) /\ UNCHANGED <<h, loc, oob>>
                ELSE \E g \in Fillers(buf, loc.offset, OPT_LEN) :
                       LET o == BytesAt(buf, loc.offset, OPT_LEN, g)
                           osize == ntohl(SubSeq(o, 1, 4))
                           ocmd == ntohl(SubSeq(o, 5, 8))
                           size == Add32(loc.size, osize)
                       IN  /\ oob' = (oob \/ ~InBounds(buf, loc.offset, OPT_LEN))
                           /\ loc' = [loc EXCEPT
                                        !.offset = Add32(loc.offset, osize),
                                        !.size = size,
                                        !.i = IF ULess(hsize, size) \/ OptionTooBig(osize)
                                                 \/ ~OptionUnderstood(ocmd)
                                              THEN @ ELSE @ + 1]
                           /\ IF ULess(hsize, size) \/ OptionTooBig(osize)
                              THEN Return(-EINVAL) /\ h' = h
                              ELSE /\ h' = [h EXCEPT !.flags = process_option(@, ocmd)]
                                   /\ IF OptionUnderstood(ocmd)
                                      THEN UNCHANGED <<pc, ret>>
                                      ELSE Return(-EINVAL)
       \/ /\ loc.i < loc.options
          /\ ~buf.valid
          /\ \E hsize \in Load32(mem, 0) : ~UGreater64(loc.size, OPT_LEN, hsize)
          /\ pc' = "crash"
          /\ oob' = TRUE
          /\ UNCHANGED <<ret, h, loc>>
    /\ UNCHANGED <<op, h0, mem, buf, rd, rx, peerOpen, sent, out>>

(***************************************************************************)
(* Sending: tracecmd_msg_init, make_tinit, msg_write, tracecmd_msg_send.   *)
(***************************************************************************)
\* the process-wide page_size the client announces
page_size == 4096

\* a message struct: its 24 packed bytes and the buffer msg.buf points to
tracecmd_msg_init(cmd) ==
    [mem |-> htonl(MSG_HDR_LEN + msg_cmd_sizes(cmd)) \o htonl(cmd)
               \o htonl(msg_cmd_sizes(cmd)) \o Zeros(12),
     buf |-> << >>]

SetHdrSize(msg, size) ==
    [msg EXCEPT !.mem = htonl(size) \o SubSeq(@, 5, 24)]

make_tinit(handle, msg) ==
    LET use_tcp == "USE_TCP" \in handle.flags
        opt_num == IF use_tcp THEN 1 ELSE 0
        data_size == IF use_tcp THEN OPT_LEN ELSE 0
        m1 == [msg EXCEPT
                 !.mem = SubSeq(@, 1, 12) \o htonl(handle.cpu_count)
                           \o htonl(page_size) \o htonl(opt_num),
                 !.buf = IF use_tcp THEN Opt(OPT_LEN, MSGOPT_USETCP) ELSE @]
    IN  SetHdrSize(m1, Add32(ntohl(SubSeq(m1.mem, 1, 4)), data_size))

\* 4 * cpus modulo 2^32: sizeof(*ports) * cpus as it is added to hdr.size
PortsSize(cpus) == Add32(Add32(cpus, cpus), Add32(cpus, cpus))

\* the message after make_rinit stored cpus, the port array and the new size
make_rinit(msg, cpus, ports) ==
    LET m1 == [msg EXCEPT
                 !.mem = SubSeq(@, 1, 12) \o htonl(cpus) \o SubSeq(@, 17, 24),
                 !.buf = [k \in 1..(PORT_LEN * cpus) |->
                            htonl(ports[((k - 1) \div PORT_LEN) + 1])[((k - 1) % PORT_LEN) + 1]]]
    IN  SetHdrSize(m1, Add32(ntohl(SubSeq(m1.mem, 1, 4)), PortsSize(cpus)))

\* __do_write_check: writes all the bytes, looping over short writes, or fails
do_write_check(bytes) ==
    { [ret |-> 0, written |-> bytes] } \cup
    { [ret |-> -e, written |-> << >>] : e \in WriteErrnos }

msg_write_zero_data(msg) ==
    LET msg_size == Add32(MSG_HDR_LEN, ntohl(SubSeq(msg.mem, 9, 12)))
        data_size == Sub32(ntohl(SubSeq(msg.mem, 1, 4)), msg_size)
    IN  { [ret |-> IF w1.ret < 0 \/ data_size = 0 THEN w1.ret ELSE w2.ret,
           written |-> IF w1.ret < 0 \/ data_size = 0
                       THEN w1.written ELSE w1.written \o w2.written] :
            w1 \in do_write_check(SubSeq(msg.mem, 1, msg_size)),
            w2 \in do_write_check(Zeros(data_size)) }

\* the outcomes of msg_write: its return value and the bytes put on the wire
msg_write(msg) ==
    LET cmd == ntohl(SubSeq(msg.mem, 5, 8))
        msg_size == Add32(MSG_HDR_LEN, ntohl(SubSeq(msg.mem, 9, 12)))
        data_size == Sub32(ntohl(SubSeq(msg.mem, 1, 4)), msg_size)
    IN  IF CmdInvalid(cmd) \/ data_size < 0
        THEN { [ret |-> -EINVAL, written |-> << >>] }
        ELSE { [ret |-> IF w1.ret < 0 \/ data_size = 0 THEN w1.ret ELSE w2.ret,
                written |-> IF w1.ret < 0 \/ data_size = 0
                            THEN w1.written ELSE w1.written \o w2.written] :
                 w1 \in do_write_check(SubSeq(msg.mem, 1, msg_size)),
                 w2 \in do_write_check(SubSeq(msg.buf, 1, data_size)) }

\* the outcomes of tracecmd_msg_send
tracecmd_msg_send(msg) ==
    { [ret |-> IF w.ret < 0 THEN -ECOMM ELSE w.ret, written |-> w.written] :
        w \in msg_write(msg) }

(***************************************************************************)
(* tracecmd_msg_send_init_data                                             *)
(***************************************************************************)
\* the TINIT is built and sent
send_init_data_send ==
    /\ pc = "s_send"
    /\ \/ /\ "USE_TCP" \in h.flags
          /\ Return(-ENOMEM)
          /\ out' = out
       \/ \E w \in tracecmd_msg_send(make_tinit(h, tracecmd_msg_init(MSG_TINIT))) :
             /\ out' = out \o w.written
             /\ IF w.ret < 0
                THEN Return(w.ret)
                ELSE pc' = "s_poll" /\ ret' = w.ret
    /\ UNCHANGED <<op, h, h0, mem, buf, rd, rx, peerOpen, sent, loc, oob>>

ReplyRejectedNever(cmd) == FALSE

\* whether the reply's command is refused: anything but RINIT
ReplyRejected(cmd) == cmd # MSG_RINIT

\* the ports of a received port array of cpus entries
PortsOf(b, cpus, g) ==
    [k \in 1..cpus |->
        ntohl(BytesAt(b, PORT_LEN * (k - 1), PORT_LEN,
                      SubSeq(g, PORT_LEN * (k - 1) + 1, PORT_LEN * k)))]

\* after tracecmd_msg_wait_for_msg's receive returned: the reply is checked
\* and the ports are copied out
send_init_data_recv ==
    /\ pc = "s_recv"
    /\ Returned
    /\ \/ /\ rd.ret < 0
          /\ Return(rd.ret)
          /\ UNCHANGED <<loc, oob>>
       \/ /\ rd.ret >= 0
          /\ \E ucmd \in Load32(mem, 4), ucpus \in Load32(mem, 12) :
                LET cpus == ucpus
                IN  IF ucmd = MSG_CLOSE
                    THEN Return(-ECONNABORTED) /\ UNCHANGED <<loc, oob>>
                    ELSE IF ReplyRejected(ucmd)
                    THEN Return(-EINVAL) /\ UNCHANGED <<loc, oob>>
                    ELSE IF cpus < 0
                    THEN pc' = "die" /\ UNCHANGED <<ret, loc, oob>>
                    ELSE \/ \E g \in Fillers(buf, 0, PORT_LEN * cpus) :
                              /\ Return(0)
                              /\ loc' = [loc EXCEPT !.ports_set = TRUE,
                                                    !.ports = PortsOf(buf, cpus, g)]
                              /\ oob' = (oob \/ (cpus > 0
                                                 /\ ~InBounds(buf, 0, PORT_LEN * cpus)))
                         \/ /\ cpus > 0
                            /\ ~buf.valid
                            /\ pc' = "crash"
                            /\ oob' = TRUE
                            /\ UNCHANGED <<ret, loc>>
    /\ UNCHANGED <<op, h, h0, mem, buf, rd, rx, peerOpen, sent, out>>

(***************************************************************************)
(* tracecmd_msg_data_send                                                  *)
(***************************************************************************)
\* memcpy(msg.buf, src, n): the first bytes of the buffer are replaced
Memcpy(dst, src) == src \o SubSeq(dst, Len(src) + 1, Len(dst))

ChunkIsFullMaxLen(n) == n > MSG_MAX_LEN

\* whether the bytes left do not fit in one message
ChunkIsFull(n) == n > MSG_MAX_DATA_LEN

\* the message is initialised and its buffer allocated
data_send_init ==
    /\ pc = "ds_init"
    /\ \/ Return(-ENOMEM) /\ UNCHANGED <<mem, buf, loc>>
       \/ /\ pc' = "ds_loop"
          /\ mem' = SetHdrSize(tracecmd_msg_init(MSG_SEND_DATA), MSG_MAX_LEN).mem
          /\ buf' = [valid |-> TRUE, data |-> [k \in 1..MSG_MAX_DATA_LEN |-> -1]]
          /\ loc' = [loc EXCEPT !.n = Len(loc.data), !.count = 0]
          /\ ret' = ret
    /\ UNCHANGED <<op, h, h0, rd, rx, peerOpen, sent, out, oob>>

\* one iteration of while (n): a chunk is copied and written; or the return
data_send_chunk ==
    /\ pc = "ds_loop"
    /\ \/ /\ loc.n = 0
          /\ pc' = "done"
          /\ ret' \in (IF Len(loc.data) = 0
                       THEN GarbageWords ELSE {ret})
          /\ buf' = NoBuf
          /\ mem' = Zeros(24)
          /\ UNCHANGED <<loc, out>>
       \/ /\ loc.n # 0
          /\ LET full == ChunkIsFull(loc.n)
                 len == IF full THEN MSG_MAX_DATA_LEN ELSE loc.n
                 m == IF full THEN mem
                      ELSE SetHdrSize([mem |-> mem, buf |-> << >>],
                                      MSG_HDR_LEN + loc.n).mem
                 b == Memcpy(buf.data, SubSeq(loc.data, loc.count + 1, loc.count + len))
             IN  /\ mem' = m
                 /\ buf' = [buf EXCEPT !.data = b]
                 /\ loc' = [loc EXCEPT !.n = IF full THEN @ - MSG_MAX_DATA_LEN ELSE 0,
                                       !.count = IF full THEN @ + MSG_MAX_DATA_LEN ELSE @]
                 /\ \E w \in msg_write([mem |-> m, buf |-> b]) :
                       /\ out' = out \o w.written
                       /\ ret' = w.ret
                       /\ pc' = IF w.ret < 0 THEN "ds_break" ELSE "ds_loop"
    /\ UNCHANGED <<op, h, h0, rd, rx, peerOpen, sent, oob>>

\* after break: msg_free and return ret
data_send_break ==
    /\ pc = "ds_break"
    /\ pc' = "done"
    /\ buf' = NoBuf
    /\ mem' = Zeros(24)
    /\ UNCHANGED <<op, ret, h, h0, rd, rx, peerOpen, sent, loc, out, oob>>

(***************************************************************************)
(* tracecmd_msg_send_port_array, tracecmd_msg_finish_sending_data,         *)
(* tracecmd_msg_send_close_msg                                             *)
(***************************************************************************)
\* the port numbers a server announces
PortList(cpus) == [k \in 1..cpus |-> 7000 + k]

\* the RINIT with the handle's cpu_count ports is built and sent
send_port_array ==
    /\ pc = "p_send"
    /\ \/ Return(-ENOMEM) /\ out' = out
       \/ \E w \in tracecmd_msg_send(make_rinit(tracecmd_msg_init(MSG_RINIT),
                                                 h.cpu_count, PortList(h.cpu_count))) :
             /\ out' = out \o w.written
             /\ Return(IF w.ret < 0 THEN w.ret ELSE 0)
    /\ UNCHANGED <<op, h, h0, mem, buf, rd, rx, peerOpen, sent, loc, oob>>

\* a FIN_DATA is sent
finish_sending_data ==
    /\ pc = "f_send"
    /\ \E w \in tracecmd_msg_send(tracecmd_msg_init(MSG_FIN_DATA)) :
          /\ out' = out \o w.written
          /\ Return(IF w.ret < 0 THEN w.ret ELSE 0)
    /\ UNCHANGED <<op, h, h0, mem, buf, rd, rx, peerOpen, sent, loc, oob>>

\* a CLOSE is sent; the function returns nothing
send_close_msg ==
    /\ pc = "x_send"
    /\ \E w \in tracecmd_msg_send(tracecmd_msg_init(MSG_CLOSE)) :
          out' = out \o w.written
    /\ pc' = "done"
    /\ UNCHANGED <<op, ret, h, h0, mem, buf, rd, rx, peerOpen, sent, loc, oob>>

(***************************************************************************)
(* A peer that runs this file's sending code.                              *)
(***************************************************************************)
\* the SEND_DATA message tracecmd_msg_data_send writes when n bytes are left
ChunkMsg(n) ==
    LET full == ChunkIsFull(n)
        len == IF full THEN MSG_MAX_DATA_LEN ELSE n
        m0 == SetHdrSize(tracecmd_msg_init(MSG_SEND_DATA), MSG_MAX_LEN)
    IN  [mem |-> (IF full THEN m0 ELSE SetHdrSize(m0, MSG_HDR_LEN + n)).mem,
         buf |-> Memcpy([k \in 1..MSG_MAX_DATA_LEN |-> -1], DataBuf(len))]

\* the largest cpu count whose RINIT fits in MSG_MAX_LEN
MaxRinitCpus == (MSG_MAX_LEN - MSG_HDR_LEN - 4) \div PORT_LEN

\* the fields of a message struct, as the sender holds them
FieldsOf(msg) ==
    LET size == ntohl(SubSeq(msg.mem, 1, 4))
        cmd_size == ntohl(SubSeq(msg.mem, 9, 12))
    IN  M(size, ntohl(SubSeq(msg.mem, 5, 8)), cmd_size,
          SubSeq(msg.mem, MSG_HDR_LEN + 1, MSG_HDR_LEN + cmd_size),
          SubSeq(msg.buf, 1, size - MSG_HDR_LEN - cmd_size))

\* the fields of a message struct as the sender holds them, and the bytes
\* a successful msg_write puts on the wire for it
Written(msg) ==
    { [m |-> FieldsOf(msg), bytes |-> w.written] :
        w \in { x \in msg_write(msg) : x.ret = 0 } }

\* what the peer builds: TINITs of a client and small SEND_DATA chunks
BuiltSmall ==
    UNION { Written(make_tinit([flags |-> f, cpu_count |-> 2],
                               tracecmd_msg_init(MSG_TINIT))) :
              f \in { {}, {"USE_TCP"} } } \cup
    UNION { Written(ChunkMsg(n)) : n \in 1..2 }

\* RINITs of a server and full SEND_DATA chunks of a client
BuiltLarge ==
    UNION { Written(make_rinit(tracecmd_msg_init(MSG_RINIT), c, PortList(c))) :
              c \in {0, 1, 2, MaxRinitCpus} } \cup
    UNION { Written(ChunkMsg(n)) : n \in {MSG_MAX_DATA_LEN, MSG_MAX_DATA_LEN + 1} }

\* what the peer builds for the operation: collect_data, which writes the
\* payload out in every split, is given the small messages only
BuiltMsgs(o) ==
    IF o = "collect_data" THEN BuiltSmall ELSE BuiltSmall \cup BuiltLarge

\* the peer builds a message and msg_write puts it on the wire
PeerSendBuilt ==
    /\ Polling \/ (Reading /\ rd.got = 0)
    /\ rx = << >>
    /\ peerOpen
    /\ sent.count < MaxPeerMsgs
    /\ \E w \in BuiltMsgs(op) :
          /\ rx' = w.bytes
          /\ sent' = [count |-> sent.count + 1, last |-> w.m, built |-> TRUE]
    /\ UNCHANGED <<op, pc, ret, h, h0, mem, buf, rd, peerOpen, loc, out, oob>>

(***************************************************************************)
(* The specification.                                                      *)
(***************************************************************************)
Next ==
    \/ PeerSend
    \/ PeerSendBuilt
    \/ PeerClose
    \/ msg_read_some
    \/ msg_read_fault
    \/ msg_read_eof
    \/ msg_read_error
    \/ msg_read_eintr
    \/ tracecmd_msg_recv
    \/ msg_read_extra
    \/ msg_read_extra_scratch
    \/ msg_read_extra_fixed_done
    \/ msg_read_extra_buf
    \/ msg_read_extra_done
    \/ tracecmd_msg_recv_wait
    \/ collect_data_recv
    \/ collect_data_write
    \/ tracecmd_msg_set_done
    \/ collect_data_drain
    \/ collect_data_drain_recv
    \/ initial_setting_recv
    \/ initial_setting_option
    \/ send_init_data_send
    \/ send_init_data_recv
    \/ data_send_init
    \/ data_send_chunk
    \/ data_send_break
    \/ send_port_array
    \/ finish_sending_data
    \/ send_close_msg

Spec == Init /\ [][Next]_vars

\* the steps the running process takes on its own: a read(2) that has bytes
\* or an end of file to return, a poll(2) that returns with an event or
\* after its timeout, and the code between the system calls.  What the
\* peer sends, whether a system call fails, and when the caller sets the
\* done flag are left to the environment.
ProcessStep ==
    \/ msg_read_some
    \/ msg_read_eof
    \/ tracecmd_msg_recv
    \/ msg_read_extra
    \/ msg_read_extra_scratch
    \/ msg_read_extra_fixed_done
    \/ msg_read_extra_buf
    \/ msg_read_extra_done
    \/ tracecmd_msg_recv_wait
    \/ collect_data_recv
    \/ collect_data_write
    \/ collect_data_drain
    \/ collect_data_drain_recv
    \/ initial_setting_recv
    \/ initial_setting_option
    \/ send_init_data_send
    \/ send_init_data_recv
    \/ data_send_init
    \/ data_send_chunk
    \/ data_send_break
    \/ send_port_array
    \/ finish_sending_data
    \/ send_close_msg

\* the process is scheduled: it does not stop while it has a step to take
FairSpec == Spec /\ WF_vars(ProcessStep)

(***************************************************************************)
(* Properties.                                                             *)
(***************************************************************************)
\* the header fields of the message in the slot
HdrSize == ntohl(SubSeq(mem, 1, 4))
HdrCmd == ntohl(SubSeq(mem, 5, 8))
HdrCmdSize == ntohl(SubSeq(mem, 9, 12))

\* the last receive returned, and returned success
RecvOk == rd.phase = "ret" /\ rd.hdr /\ rd.ret = 0

\* the peer's message m is one frame: its header describes the bytes it has
WellFramed(m) ==
    /\ m.size = MSG_HDR_LEN + Len(m.fix) + Len(m.var)
    /\ m.cmd_size = Len(m.fix)
    /\ m.size >= MSG_HDR_LEN
    /\ m.size <= MSG_MAX_LEN

\* C1: in tracecmd_msg_collect_data, before FIN_DATA was received, a
\* successfully received message whose command is neither SEND_DATA nor
\* FIN_DATA makes the call return a negative error code, never 0.
C1_OtherCommandBeforeFinIsError ==
    (/\ op = "collect_data"
     /\ pc = "done"
     /\ ~loc.fin
     /\ RecvOk
     /\ HdrCmd \notin {MSG_SEND_DATA, MSG_FIN_DATA})
    => ret < 0

\* C2: when tracecmd_msg_recv returns after reading a header, a size field
\* below 12 or above 8192 gives -ENOMSG with exactly the 12 header bytes
\* consumed, and a size in [12, 8192] never gives -ENOMSG.
C2_SizeValidation ==
    (rd.phase = "ret" /\ rd.hdr)
    => IF ULess(HdrSize, 12) \/ UGreater(HdrSize, 8192)
       THEN rd.ret = -ENOMSG /\ rd.got = 12
       ELSE rd.ret # -ENOMSG

C2_Witness ==
    /\ rd.phase = "ret"
    /\ rd.hdr
    /\ HdrSize = 11
    /\ rd.ret = -ENOMSG
    /\ rd.got = 12

\* C3: for a SEND_DATA message with a payload of n bytes received by
\* tracecmd_msg_collect_data, the bytes written to ofd are at every moment
\* the first bytes of the payload, in order, and all n of them once the
\* write loop ends, whatever short writes and EINTR interruptions occur.
C3_PayloadWrittenVerbatim ==
    (/\ op = "collect_data"
     /\ pc = "c_write"
     /\ WellFramed(sent.last)
     /\ sent.last.cmd = MSG_SEND_DATA)
    => /\ Len(out) <= Len(sent.last.var)
       /\ out = SubSeq(sent.last.var, 1, Len(out))
       /\ (loc.t <= 0 => out = sent.last.var)

\* the frames of a byte stream, each cut by the size its header declares
RECURSIVE Frames(_)
Frames(bytes) ==
    IF Len(bytes) = 0 THEN << >>
    ELSE IF Len(bytes) < MSG_HDR_LEN
    THEN << [size |-> -1, cmd |-> -1, cmd_size |-> -1, var |-> bytes] >>
    ELSE LET size == ntohl(SubSeq(bytes, 1, 4))
             cs == ntohl(SubSeq(bytes, 9, 12))
         IN  IF size < MSG_HDR_LEN \/ size > Len(bytes) \/ cs < 0
                \/ MSG_HDR_LEN + cs > size
             THEN << [size |-> size, cmd |-> -1, cmd_size |-> cs, var |-> bytes] >>
             ELSE << [size |-> size, cmd |-> ntohl(SubSeq(bytes, 5, 8)),
                      cmd_size |-> cs,
                      var |-> SubSeq(bytes, MSG_HDR_LEN + cs + 1, size)] >>
                  \o Frames(SubSeq(bytes, size + 1, Len(bytes)))

RECURSIVE Concat(_)
Concat(fs) == IF Len(fs) = 0 THEN << >> ELSE Head(fs).var \o Concat(Tail(fs))

\* C4: tracecmd_msg_data_send of k * 8180 + r bytes (0 < r < 8180) with no
\* write failure puts exactly k + 1 SEND_DATA messages on the wire: the
\* first k of size 8192 with 8180 payload bytes each, the last of size
\* 12 + r, and the payloads in order make up the input bytes.
C4_DataSendChunks ==
    (/\ op = "data_send"
     /\ pc = "done"
     /\ ret = 0
     /\ Len(loc.data) % 8180 # 0)
    => LET k == Len(loc.data) \div 8180
           r == Len(loc.data) % 8180
           fs == Frames(out)
       IN  /\ Len(fs) = k + 1
           /\ \A j \in 1..Len(fs) :
                 /\ fs[j].cmd = MSG_SEND_DATA
                 /\ fs[j].cmd_size = 0
                 /\ j <= k => fs[j].size = 8192 /\ Len(fs[j].var) = 8180
                 /\ j = k + 1 => fs[j].size = 12 + r
           /\ Concat(fs) = loc.data

C4_Witness ==
    /\ op = "data_send"
    /\ pc = "done"
    /\ ret = 0
    /\ Len(loc.data) = 2 * 8180 + 8179
    /\ Len(Frames(out)) = 3
    /\ Frames(out)[3].size = 8191

\* C5: in the drain loop after FIN_DATA, with the done flag not set, the
\* first message received ends tracecmd_msg_collect_data: a CLOSE with 0,
\* however many SEND_DATA messages came before FIN_DATA, and any other
\* command with a negative error.
C5_DrainFirstMessageDecides ==
    (/\ op = "collect_data"
     /\ pc = "done"
     /\ loc.fin
     /\ ~h.done
     /\ RecvOk)
    => /\ loc.nDrain = 1
       /\ HdrCmd = MSG_CLOSE => ret = 0
       /\ HdrCmd # MSG_CLOSE => ret < 0

C5_Witness ==
    /\ op = "collect_data"
    /\ pc = "done"
    /\ loc.fin
    /\ ~h.done
    /\ RecvOk
    /\ loc.nData >= 2
    /\ loc.nDrain = 1
    /\ HdrCmd = MSG_CLOSE
    /\ ret = 0

\* the fields of a TINIT or RINIT as the peer sent them
SentCpus == ntohl(SubSeq(sent.last.fix, 1, 4))
SentPageSize == ntohl(SubSeq(sent.last.fix, 5, 8))
SentOptNum == ntohl(SubSeq(sent.last.fix, 9, 12))

\* tracecmd_msg_initial_setting has received the peer's only message, a
\* TINIT frame with its whole fixed payload
TinitReceived ==
    /\ op = "initial_setting"
    /\ sent.count = 1
    /\ WellFramed(sent.last)
    /\ sent.last.cmd = MSG_TINIT
    /\ sent.last.cmd_size >= 12
    /\ RecvOk

\* whether, among the first n option records of the payload var (each lying
\* where the sizes of the ones before it put it), one declares a size above
\* 4096, or a command other than use-TCP, or takes the running sum past hsize
RECURSIVE OptionFault(_, _, _, _, _, _)
OptionFault(var, hsize, n, i, off, sum) ==
    IF i >= n \/ off + 8 > Len(var) THEN FALSE
    ELSE LET osize == ntohl(SubSeq(var, off + 1, off + 4))
             ocmd == ntohl(SubSeq(var, off + 5, off + 8))
         IN  IF osize < 0 \/ osize > 4096 \/ ocmd # 1 \/ sum + osize > hsize
             THEN TRUE
             ELSE OptionFault(var, hsize, n, i + 1, off + osize, sum + osize)

C7_TooManyOptionsRejected ==
    (/\ TinitReceived
     /\ pc \in {"done", "crash"}
     /\ SentOptNum > (sent.last.size - 12 - sent.last.cmd_size) \div 8)
    => (pc = "done" /\ ret < 0 /\ ~oob)

\* C8: when tracecmd_msg_initial_setting fails on a received TINIT (invalid
\* cpus or page_size, malformed, oversized or unknown option), the handle's
\* TCP flag and cpu_count are what they were before the call.
C8_FailureLeavesHandle ==
    (TinitReceived /\ pc = "done" /\ ret < 0)
    => (h.flags = h0.flags /\ h.cpu_count = h0.cpu_count)

\* n use-TCP option records
RECURSIVE UseTcpOpts(_)
UseTcpOpts(n) ==
    IF n <= 0 THEN << >> ELSE <<0, 0, 0, 8, 0, 0, 0, 1>> \o UseTcpOpts(n - 1)

\* the peer's message is a well-formed TINIT: cpus >= 0, page_size > 0 and
\* opt_num use-TCP records that fill the variable payload
WellFormedTinit ==
    /\ TinitReceived
    /\ sent.last.cmd_size = 12
    /\ SentCpus >= 0
    /\ SentPageSize > 0
    /\ SentOptNum >= 0
    /\ sent.last.var = UseTcpOpts(SentOptNum)

\* C9: for a well-formed TINIT with N >= 1 use-TCP options,
\* tracecmd_msg_initial_setting returns the TINIT's page_size, stores its
\* cpus in cpu_count and leaves the TCP flag set; with no option the flags
\* are those of before the call.
C9_HandshakeResult ==
    (WellFormedTinit /\ pc # "i_recv")
    => /\ pc \in {"i_opt", "done"}
       /\ h.cpu_count = SentCpus
       /\ pc = "done" =>
            /\ ret = SentPageSize
            /\ SentOptNum >= 1 => "USE_TCP" \in h.flags
            /\ SentOptNum = 0 => h.flags = h0.flags

C9_Witness ==
    /\ WellFormedTinit
    /\ pc = "done"
    /\ SentOptNum = 2
    /\ "USE_TCP" \notin h0.flags
    /\ "USE_TCP" \in h.flags
    /\ ret = 4096
    /\ h.cpu_count = 2
    /\ h0.cpu_count # 2

\* C10: in tracecmd_msg_send_init_data, a received RINIT whose variable
\* payload holds fewer than rinit.cpus 32-bit ports yields an error, and no
\* port is read from outside the received payload.
C10_ShortPortArrayIsError ==
    (/\ op = "send_init_data"
     /\ pc \in {"done", "crash"}
     /\ sent.count = 1
     /\ WellFramed(sent.last)
     /\ sent.last.cmd = MSG_RINIT
     /\ sent.last.cmd_size = 4
     /\ RecvOk
     /\ SentCpus > 0
     /\ Len(sent.last.var) < 4 * SentCpus)
    => (pc = "done" /\ ret < 0 /\ ~oob)

\* the bytes of the TINIT that tracecmd_msg_send_init_data puts on the wire
\* for the handle it was called with
TinitOnWire ==
    LET tcp == "USE_TCP" \in h0.flags
    IN  htonl(IF tcp THEN 32 ELSE 24) \o htonl(1) \o htonl(12)
          \o htonl(h0.cpu_count) \o htonl(4096) \o htonl(IF tcp THEN 1 ELSE 0)
          \o (IF tcp THEN htonl(8) \o htonl(1) ELSE << >>)

C12_UnknownCommandIsError ==
    (/\ rd.phase = "ret"
     /\ rd.hdr
     /\ (HdrCmd < 0 \/ HdrCmd > 4))
    => rd.ret < 0

\* C13: round trip.  A TINIT built by make_tinit, an RINIT built by
\* make_rinit with a total size of at most 8192, or a SEND_DATA chunk built
\* by tracecmd_msg_data_send, written by msg_write, is accepted by
\* tracecmd_msg_recv and decoded into a message with the same size, cmd,
\* cmd_size, fixed payload and variable payload.
C13_RoundTrip ==
    (/\ sent.built
     /\ sent.count = 1
     /\ rd.phase = "ret"
     /\ rd.hdr)
    => /\ rd.ret \notin {-ENOMSG, -EINVAL}
       /\ rd.ret = 0 =>
            /\ HdrSize = sent.last.size
            /\ HdrCmd = sent.last.cmd
            /\ HdrCmdSize = sent.last.cmd_size
            /\ SubSeq(mem, 13, 12 + sent.last.cmd_size) = sent.last.fix
            /\ Len(sent.last.var) > 0 => (buf.valid /\ buf.data = sent.last.var)

C13_Witness ==
    /\ sent.built
    /\ sent.count = 1
    /\ RecvOk
    /\ HdrCmd = MSG_RINIT
    /\ HdrSize = MSG_MAX_LEN
    /\ ntohl(SubSeq(mem, 13, 16)) = 2044
    /\ buf.valid
    /\ Len(buf.data) = 8176
    /\ buf.data = sent.last.var

\* C14: for a valid message on the stream (a frame with a known command),
\* tracecmd_msg_recv decodes the same header, fixed payload and variable
\* payload under every partition of the bytes into short reads, down to one
\* byte per read and with EINTR retries in between, as it decodes when each
\* read returns all the bytes requested: the message's own fields.
C14_ShortReadsDecodeTheSame ==
    (/\ sent.count = 1
     /\ WellFramed(sent.last)
     /\ sent.last.cmd \in 0..4
     /\ rd.phase = "ret"
     /\ rd.hdr)
    => /\ rd.ret \notin {-ENOMSG, -EINVAL}
       /\ rd.ret = 0 =>
            LET kept == Min(sent.last.cmd_size, msg_cmd_sizes(sent.last.cmd))
            IN  /\ SubSeq(mem, 1, 12) = SubSeq(Encode(sent.last), 1, 12)
                /\ SubSeq(mem, 13, 12 + kept) = SubSeq(sent.last.fix, 1, kept)
                /\ Len(sent.last.var) > 0 =>
                     (buf.valid /\ buf.data = sent.last.var)

C14_Witness ==
    /\ sent.count = 1
    /\ WellFramed(sent.last)
    /\ sent.last.cmd = MSG_TINIT
    /\ Len(sent.last.var) = 8
    /\ RecvOk
    /\ ~rd.whole
    /\ SubSeq(mem, 1, 24) = SubSeq(Encode(sent.last), 1, 24)
    /\ buf.data = sent.last.var

\* C15: every message put on the wire by a public send operation that
\* succeeded (send_init_data, send_port_array, data_send,
\* finish_sending_data, send_close_msg) is a frame whose header.size is
\* 12 + cmd_size + the length of the variable payload written, with
\* 12 <= header.size <= 8192.
C15_SentFramesWithinMaxLen ==
    (/\ op \in {"send_init_data", "send_port_array", "data_send",
                "finish_sending_data", "send_close_msg"}
     /\ pc = "done"
     /\ ret = 0)
    => \A j \in 1..Len(Frames(out)) :
          LET f == Frames(out)[j]
          IN  /\ f.cmd \in 0..4
              /\ f.size = 12 + f.cmd_size + Len(f.var)
              /\ f.size >= 12
              /\ f.size <= 8192

\* C16: when a peer declares a cmd_size larger than the schema size of the
\* command, the excess bytes are stored only inside the 8192-byte
\* scratch_buf: every index written in scratch_buf is below 8192, whatever
\* cmd_size the header claims.
C16_ScratchWritesInBounds == rd.scr < MSG_MAX_LEN

\* C17: in every receive path (collect_data, initial_setting,
\* send_init_data) the variable-payload buffer a receive allocated is
\* released before the next receive fills the slot or the operation
\* returns: at most one such buffer is live, and none once the operation
\* has returned.
C17_ReceiveBuffersReleased ==
    (op \in {"collect_data", "initial_setting", "send_init_data"})
    => (loc.live <= 1 /\ (pc = "done" => loc.live = 0))

\* C18: framing stays in sync.  For every message for which
\* tracecmd_msg_recv returns success, the number of bytes consumed from the
\* descriptor equals the header's declared size, for every size in
\* [12, 8192] and every cmd_size, also cmd_size > size - 12 and size = 12
\* with cmd_size > 0.
C18_ConsumedEqualsDeclaredSize ==
    RecvOk => rd.got = HdrSize

\* C20: tracecmd_msg_initial_setting acts only on cpus, page_size and
\* opt_num values received from the peer: a TINIT whose cmd_size is below 12
\* (a header-only TINIT of size 12 included) is rejected with an error, and
\* the call neither returns a page_size nor sets cpu_count from it.
C20_ShortTinitRejected ==
    (/\ op = "initial_setting"
     /\ sent.count = 1
     /\ sent.last.cmd = MSG_TINIT
     /\ sent.last.cmd_size < 12
     /\ RecvOk
     /\ pc # "i_recv")
    => (/\ pc = "done"
        /\ ret < 0
        /\ h.cpu_count = h0.cpu_count)

\* tracecmd_msg_collect_data waits for the first byte of the next message,
\* in the SEND_DATA phase (poll) or in the drain phase after FIN_DATA (read)
WaitingForNext ==
    /\ op = "collect_data"
    /\ \/ pc = "c_poll"
       \/ pc = "d_recv" /\ rd.phase = "hdr" /\ rd.got = 0

\* the peer is connected and has nothing on the wire
PeerSilent == rx = << >> /\ peerOpen

\* C19: with debug mode off, tracecmd_msg_collect_data eventually returns
\* when the peer stays connected but stops sending, in the SEND_DATA phase
\* and in the drain phase after FIN_DATA alike: a wait for the next message
\* leads to the return of the call unless the peer sends or closes.
C19_CollectDataReturns ==
    (WaitingForNext /\ PeerSilent) ~> (pc = "done" \/ ~PeerSilent)

====
